---- MODULE Spec2Model ----
(***************************************************************************)
(* Model of the Handlebars view engine for Express (toba/handlebars).      *)
(*                                                                         *)
(* Spec    : the ExpressHandlebars engine with lazy partial loading and    *)
(*           the block / contentFor helpers (renderer, render,             *)
(*           loadTemplate, loadPartials), run on a JavaScript event loop:  *)
(*           synchronous segments are atomic, promise continuations run    *)
(*           from a FIFO microtask queue, file-read callbacks run only     *)
(*           when that queue is empty.                                     *)
(* SpecPH  : the module-level placeholder registry of                      *)
(*           lib/placeholder-helper.ts (contentMap, addContent,            *)
(*           getContent, placeholder, placeholderContent).                 *)
(* SpecNew : the construction of the engine that takes its views folder    *)
(*           as the viewPath option and precompiles in its constructor.    *)
(*                                                                         *)
(* Strings are sequences of tokens, so that concatenation, join, endsWith  *)
(* and path.join are computed rather than assumed.                         *)
(***************************************************************************)
EXTENDS Integers, Sequences, FiniteSets, TLC

VARIABLES
    options,        \* this.options after the constructor
    cache,          \* this.cache: path -> compiled template
    partials,       \* hbs partial namespace: name -> compiled template
    partialsLoaded, \* this.partialsLoaded
    basePath,       \* this.basePath
    placeHolders,   \* this.placeHolders: name -> list of strings
    req,            \* one record per renderer() call
    microtasks,     \* FIFO queue of promise continuations (request ids)
    reads,          \* fs.readFile operations in flight
    failures,       \* transient read errors injected so far
    stats,          \* history: per-path counts of calls, reads, compiles
    overlapped,     \* history: a request began while other work was in flight
    contentMap,     \* lib/placeholder-helper.ts contentMap
    last,           \* SpecPH history: the last helper call and its result
    pending,        \* SpecPH history: per name, strings added since last read
    ctor,           \* SpecNew: a construction of the engine that needs viewPath
    util,           \* SpecUtil: registered helpers, partial names, the last call
    iter,           \* SpecEach: the last evaluation of {{#each}}
    hbs,            \* SpecHbs: the instance of the express-hbs port
    xp              \* SpecHbs: the ___express call in progress, or the last one

vars == <<options, cache, partials, partialsLoaded, basePath, placeHolders,
          req, microtasks, reads, failures, stats, overlapped,
          contentMap, last, pending, ctor, util, iter, hbs, xp>>

engineVars == <<options, cache, partials, partialsLoaded, basePath,
                placeHolders, req, microtasks, reads, failures, stats,
                overlapped>>

phVars == <<contentMap, last, pending>>

hbsVars == <<hbs, xp>>

newVars == <<ctor, util, iter, hbsVars>>

(***************************************************************************)
(* Bounds of the model.                                                    *)
(***************************************************************************)
MaxReqs == 2
MaxFail == 1
MaxList == 2

Reqs == 1..MaxReqs

(***************************************************************************)
(* Strings, names and paths.                                               *)
(***************************************************************************)
Sep == "/"
NL == "\n"

endsWith(s, suffix) == Len(s) > 0 /\ s[Len(s)] = suffix

\* path.join of two relative pieces
pathJoin(a, b) == a \o <<Sep>> \o b

RECURSIVE LastSep(_, _)
\* index of the last separator at or before position i, 0 if none
LastSep(p, i) == IF i = 0 THEN 0 ELSE IF p[i] = Sep THEN i ELSE LastSep(p, i - 1)

\* last element of filePath.split(/[/\\]/)
LastPart(p) == SubSeq(p, LastSep(p, Len(p)) + 1, Len(p))

RECURSIVE FindPair(_, _, _, _)
\* first index i >= from with s[i] = a and s[i+1] = b, 0 if none
FindPair(s, a, b, from) ==
    IF from + 1 > Len(s) THEN 0
    ELSE IF s[from] = a /\ s[from + 1] = b THEN from
    ELSE FindPair(s, a, b, from + 1)

\* String.prototype.replace('.' + ext, ''): the first occurrence only
ReplaceDotExt(s, ext) ==
    LET i == FindPair(s, ".", ext, 1)
    IN  IF i = 0 THEN s ELSE SubSeq(s, 1, i - 1) \o SubSeq(s, i + 2, Len(s))

(***************************************************************************)
(* Options.                                                                *)
(***************************************************************************)
defaultOptions ==
    [defaultLayout |-> <<"main">>,
     partialsFolder |-> <<"partials">>,
     layoutsFolder |-> <<"layouts">>,
     cacheTemplates |-> TRUE,
     fileExtension |-> "hbs"]

addExtension(filePath, ext) ==
    IF filePath = <<>> \/ endsWith(filePath, ext)
    THEN filePath
    ELSE filePath \o <<".", ext>>

partialName(filePath, ext) == ReplaceDotExt(LastPart(filePath), ext)

\* merge(defaultOptions, options) followed by the constructor's own steps
Constructor(given) ==
    LET merged == [k \in DOMAIN defaultOptions |->
                      IF k \in DOMAIN given THEN given[k] ELSE defaultOptions[k]]
    IN  [merged EXCEPT !.defaultLayout =
                           addExtension(merged.defaultLayout, merged.fileExtension)]

(***************************************************************************)
(* The file system: static template files under the views folders.         *)
(***************************************************************************)
\* the views folders on disk, each with the same files
Roots == {<<"v1">>, <<"v2">>}

\* the views folder of the application of Spec (settings.views)
Bases == {<<"v1">>}

HomeFile == <<"home", ".", "hbs">>
MainFile == <<"main", ".", "hbs">>
OtherFile == <<"other", ".", "hbs">>
CardFile == <<"card", ".", "hbs">>
NotesFile == <<"notes", ".", "txt">>

\* a view kept in the partials folder
CardView == <<"partials", "/">> \o CardFile

ViewFiles == {HomeFile, CardView}

\* what a request may put in context.layout
Undefined == [kind |-> "undefined", name |-> <<>>]
Null == [kind |-> "null", name |-> <<>>]
Named(n) == [kind |-> "name", name |-> n]
LayoutInputs == {Undefined, Null, Named(OtherFile), Named(<<"other">>)}

\* the res.render calls of the application: a view and the context's layout
RenderInputs ==
    {[view |-> HomeFile, layout |-> l] : l \in LayoutInputs}
    \cup {[view |-> CardView, layout |-> Undefined]}

\* folders of the views folder; any other folder is missing
DirExists(dir) ==
    \E b \in Roots : dir \in {pathJoin(b, <<"partials">>), pathJoin(b, <<"layouts">>)}

\* fs.readdirSync
ReadDir(dir) ==
    IF \E b \in Roots : dir = pathJoin(b, <<"partials">>)
    THEN {CardFile, NotesFile}
    ELSE IF \E b \in Roots : dir = pathJoin(b, <<"layouts">>)
    THEN {MainFile, OtherFile}
    ELSE {}

Files ==
    UNION {
        {pathJoin(b, f) : f \in ViewFiles}
        \cup {pathJoin(pathJoin(b, <<"layouts">>), f) : f \in {MainFile, OtherFile}}
        \cup {pathJoin(pathJoin(b, <<"partials">>), f) : f \in {CardFile, NotesFile}}
        : b \in Roots }

\* every path loadTemplate can be asked for
AllPaths ==
    Files \cup
    UNION { {pathJoin(pathJoin(b, <<"layouts">>), l.name) :
                l \in {x \in LayoutInputs : x.kind = "name"}} : b \in Roots }

Exists(p) == p \in Files

(***************************************************************************)
(* Template sources.  A source is a sequence of operations:                *)
(*   text s        literal text                                            *)
(*   var           {{title}}                                               *)
(*   body          {{{body}}}                                              *)
(*   contentFor    {{#contentFor name}} fn {{/contentFor}}                 *)
(*   block         {{{block name}}} or {{#block name}} fn {{/block}}       *)
(***************************************************************************)
Op(o, n, s, h, f) == [op |-> o, name |-> n, s |-> s, hasFn |-> h, fn |-> f]
Text(s) == Op("text", "", s, FALSE, <<>>)
Var == Op("var", "", "", FALSE, <<>>)
BodyRef == Op("body", "", "", FALSE, <<>>)
ContentFor(n, f) == Op("contentFor", n, "", TRUE, f)
Block(n) == Op("block", n, "", FALSE, <<>>)
BlockDefault(n, f) == Op("block", n, "", TRUE, f)

Content(p) ==
    LET f == LastPart(p)
    IN  CASE f = HomeFile  -> <<Text("h"), Var, ContentFor("x", <<Text("c"), Var>>)>>
          [] f = MainFile  -> <<BlockDefault("x", <<Text("d"), Var>>), BodyRef, Text("m")>>
          [] f = OtherFile -> <<BodyRef, Block("x"), Text("o")>>
          [] f = CardFile  -> <<Text("k")>>
          [] OTHER         -> <<>>

(***************************************************************************)
(* Maps (JavaScript Map / object used as a dictionary).                    *)
(***************************************************************************)
EmptyMap == <<>>
MapHas(m, k) == k \in DOMAIN m
MapSet(m, k, v) == [x \in DOMAIN m \cup {k} |-> IF x = k THEN v ELSE m[x]]
MapDelete(m, k) == [x \in DOMAIN m \ {k} |-> m[x]]

RECURSIVE join(_, _)
\* Array.prototype.join
join(list, sep) ==
    IF list = <<>> THEN <<>>
    ELSE IF Len(list) = 1 THEN list[1]
    ELSE list[1] \o <<sep>> \o join(Tail(list), sep)

\* is.empty of a string
isEmpty(s) == s = <<>>

(***************************************************************************)
(* Compiled templates, body values and render contexts.                    *)
(***************************************************************************)
NoTpl == [path |-> <<>>, id |-> 0]
UndefBody == [kind |-> "undefined", tpl |-> NoTpl, s |-> <<>>]
TemplateBody(t) == [kind |-> "template", tpl |-> t, s |-> <<>>]
StringBody(s) == [kind |-> "string", tpl |-> NoTpl, s |-> s]

\* the context object of a request
RequestCtx(rr) == [who |-> "request", title |-> rr.title, body |-> rr.body]
\* the options object Handlebars passes to a function found in the context
HelperOptionsCtx == [who |-> "helperOptions", title |-> "", body |-> UndefBody]
\* the engine instance, which is `this` inside an arrow function of the class
EngineCtx == [who |-> "engine", title |-> "", body |-> UndefBody]

(***************************************************************************)
(* The engine's placeholder registry (this.placeHolders).                  *)
(***************************************************************************)
getPlaceholderContent(ph, name) ==
    IF MapHas(ph, name)
    THEN [content |-> join(ph[name], NL), ph |-> MapDelete(ph, name)]
    ELSE [content |-> <<>>, ph |-> ph]

\* the state of the registry when options.fn is called
addPlaceholderBefore(ph, name) ==
    IF MapHas(ph, name) THEN ph ELSE MapSet(ph, name, <<>>)

\* ph.push(s) once options.fn has returned s and left the registry as ph2
addPlaceholderPush(ph2, name, s) ==
    IF MapHas(ph2, name) THEN MapSet(ph2, name, Append(ph2[name], s)) ELSE ph2

(***************************************************************************)
(* Running a compiled template: template(context).                         *)
(***************************************************************************)
RECURSIVE Exec(_, _, _)
RECURSIVE Step(_, _, _)

Start(ph) == [out |-> <<>>, ph |-> ph, err |-> FALSE]

\* the helper registered as 'block'
blockHelper(o, ctx, st) ==
    LET got == getPlaceholderContent(st.ph, o.name)
    IN  IF isEmpty(got.content) /\ o.hasFn
        THEN LET d == Exec(o.fn, EngineCtx, Start(got.ph))
             IN  [out |-> st.out \o d.out, ph |-> d.ph, err |-> d.err]
        ELSE [out |-> st.out \o got.content, ph |-> got.ph, err |-> FALSE]

\* the helper registered as 'contentFor'
contentForHelper(o, ctx, st) ==
    LET before == addPlaceholderBefore(st.ph, o.name)
        inner == Exec(o.fn, ctx, Start(before))
    IN  IF inner.err
        THEN [out |-> st.out, ph |-> inner.ph, err |-> TRUE]
        ELSE [out |-> st.out,
              ph |-> addPlaceholderPush(inner.ph, o.name, inner.out),
              err |-> FALSE]

\* {{{body}}}: a function found in the context is called by Handlebars with
\* its helper options, a string is written as it is
bodyRef(ctx, st) ==
    CASE ctx.body.kind = "template" ->
            LET sub == Exec(Content(ctx.body.tpl.path), HelperOptionsCtx, Start(st.ph))
            IN  [out |-> st.out \o sub.out, ph |-> sub.ph, err |-> sub.err]
      [] ctx.body.kind = "string" -> [st EXCEPT !.out = @ \o ctx.body.s]
      [] OTHER -> st

Step(o, ctx, st) ==
    CASE o.op = "text" -> [st EXCEPT !.out = Append(@, o.s)]
      [] o.op = "var" -> IF ctx.title = "" THEN st
                         ELSE [st EXCEPT !.out = Append(@, ctx.title)]
      [] o.op = "body" -> bodyRef(ctx, st)
      [] o.op = "contentFor" -> contentForHelper(o, ctx, st)
      [] o.op = "block" -> blockHelper(o, ctx, st)
      [] OTHER -> [st EXCEPT !.err = TRUE]

Exec(prog, ctx, st) ==
    IF prog = <<>> \/ st.err THEN st
    ELSE Exec(Tail(prog), ctx, Step(Head(prog), ctx, st))

\* template(context) for a compiled template t
Invoke(t, ctx, ph) == Exec(Content(t.path), ctx, Start(ph))

(***************************************************************************)
(* The engine: requests, template loading, partial loading.                *)
(***************************************************************************)
Titles == <<"t1", "t2", "t3", "t4">>

IdleReq ==
    [pc |-> "idle",            \* where the request's async function stands
     viewPath |-> <<>>,        \* the viewPath argument
     ctxLayout |-> Undefined,  \* context.layout
     views |-> <<>>,           \* context.settings.views
     title |-> "",             \* context.title
     body |-> UndefBody,       \* context.body
     layout |-> Undefined,     \* const layout
     path |-> <<>>,            \* the viewPath variable handed to render
     prom |-> "none",          \* the awaited promise
     tpl |-> NoTpl,            \* the value the awaited promise resolved with
     result |-> [kind |-> "none", out |-> <<>>],  \* what cb received last
     cbCount |-> 0,            \* history: number of cb calls
     loaded |-> {},            \* history: paths this request asked loadTemplate for
     phBefore |-> EmptyMap,    \* history: registry when the template was invoked
     used |-> NoTpl,           \* history: the template that was invoked
     failed |-> {},            \* history: paths whose read failed for this request
     ready |-> FALSE]          \* history: partials were registered at the invocation

Active(rr) == rr.pc \notin {"idle", "done", "lost"}

\* a selection that falls back to the default layout for null as well
selectLayoutNullAsDefault(ctxLayout, opts) ==
    IF ctxLayout \in {Undefined, Null} THEN Named(opts.defaultLayout) ELSE ctxLayout

\* renderer: const layout = context.layout === undefined ? defaultLayout : context.layout
selectLayout(ctxLayout, opts) ==
    IF ctxLayout = Undefined THEN Named(opts.defaultLayout) ELSE ctxLayout

\* a resolution that looks for the layout next to the views
layoutPathNoFolder(base, opts, layout) == pathJoin(base, layout.name)

\* renderer: path.join(this.basePath, this.options.layoutsFolder, layout)
layoutPath(base, opts, layout) ==
    pathJoin(pathJoin(base, opts.layoutsFolder), layout.name)

\* a cache whose add drops the other entries
cacheAddAlone(c, key, t) == MapSet(EmptyMap, key, t)

\* a cache of two entries whose add makes room by dropping another entry
cacheAddBounded(c, key, t) ==
    IF Cardinality(DOMAIN c \ {key}) >= 2
    THEN MapSet(MapDelete(c, CHOOSE k \in DOMAIN c : k # key), key, t)
    ELSE MapSet(c, key, t)

\* this.cache.add(filePath, template)
cacheAdd(c, key, t) == MapSet(c, key, t)

\* a loader that never consults the cache
loadTemplateNoCache(filePath, registerAsPartial, by) ==
    [path |-> filePath, partial |-> registerAsPartial, by |-> by,
     hit |-> FALSE, tpl |-> NoTpl]

\* The synchronous part of loadTemplate(filePath, registerAsPartial): the
\* promise executor.  by is the request on whose behalf it runs.
loadTemplate(filePath, registerAsPartial, by) ==
    IF MapHas(cache, filePath)
    THEN [path |-> filePath, partial |-> registerAsPartial, by |-> by,
          hit |-> TRUE, tpl |-> cache[filePath]]
    ELSE [path |-> filePath, partial |-> registerAsPartial, by |-> by,
          hit |-> FALSE, tpl |-> NoTpl]

\* The synchronous part of loadPartials(folder): one loadTemplate call per
\* template file of the folder; nothing waits for the reads it starts.  When
\* the folder is missing readdirSync throws inside the async callback of
\* forEach: the promise of that callback rejects and forEach drops it.
loadPartials(base, folder, by) ==
    LET fullPath == pathJoin(base, folder)
        files == ReadDir(fullPath)
    IN  IF ~DirExists(fullPath) THEN {}
        ELSE {loadTemplate(pathJoin(fullPath, fileName), TRUE, by) :
                fileName \in {f \in files : endsWith(f, options.fileExtension)}}

\* the template files loadPartials finds in the partials folder
PartialFiles(base) ==
    {pathJoin(pathJoin(base, options.partialsFolder), f) :
        f \in {x \in ReadDir(pathJoin(base, options.partialsFolder)) :
                    endsWith(x, options.fileExtension)}}

\* every one of them is in the partial namespace of hbs
Registered(base) ==
    \A p \in PartialFiles(base) :
        MapHas(partials, partialName(p, options.fileExtension))

ReadOf(l) == [path |-> l.path, partial |-> l.partial, by |-> l.by]

\* history of a set of loadTemplate calls made in one synchronous segment
Count(st, loads) ==
    [calls |-> [p \in AllPaths |->
                  st.calls[p] + Cardinality({l \in loads : l.path = p})],
     reads |-> [p \in AllPaths |->
                  st.reads[p] + Cardinality({l \in loads : l.path = p /\ ~l.hit})],
     compiles |-> st.compiles,
     lateReads |-> [p \in AllPaths |->
                  st.lateReads[p] + Cardinality({l \in loads :
                        l.path = p /\ ~l.hit /\ st.compiles[p] > 0})],
     lateIds |-> [p \in AllPaths |->
                  st.lateIds[p] \cup {l.tpl.id : l \in {x \in loads :
                        x.path = p /\ x.hit /\ st.compiles[p] > 0}}]]

\* render, from its call to the await of loadTemplate(viewPath)
renderLoad(rr, r) ==
    LET l == loadTemplate(rr.path, FALSE, r)
    IN  [rr |-> [rr EXCEPT !.pc = "awaitTemplate",
                           !.prom = IF l.hit THEN "resolved" ELSE "pending",
                           !.tpl = l.tpl,
                           !.loaded = @ \cup {rr.path}],
         loads |-> {l},
         enqueue |-> l.hit]

\* render, from its call to its first await; base is this.basePath then
render(rr, r, base) ==
    IF ~partialsLoaded
    THEN [rr |-> [rr EXCEPT !.pc = "awaitPartials"],
          loads |-> loadPartials(base, options.partialsFolder, r),
          enqueue |-> TRUE]
    ELSE renderLoad(rr, r)

\* the effects of one synchronous segment of request r
Segment(r, seg, queue) ==
    /\ req' = [req EXCEPT ![r] = seg.rr]
    /\ reads' = reads \cup {ReadOf(l) : l \in {x \in seg.loads : ~x.hit}}
    /\ stats' = Count(stats, seg.loads)
    /\ microtasks' = IF seg.enqueue THEN Append(queue, r) ELSE queue

\* renderer(viewPath, context, cb) up to its first await
Renderer(r, viewPath, ctxLayout, views) ==
    /\ req[r].pc = "idle"
    /\ \A q \in Reqs : q < r => req[q].pc # "idle"
    /\ LET layout == selectLayout(ctxLayout, options)
           rr == [req[r] EXCEPT !.viewPath = viewPath,
                                !.ctxLayout = ctxLayout,
                                !.views = views,
                                !.title = Titles[r],
                                !.layout = layout,
                                !.path = viewPath]
       IN  /\ basePath' = views
           /\ IF layout # Null
              THEN LET l == loadTemplate(viewPath, FALSE, r)
                   IN  Segment(r,
                         [rr |-> [rr EXCEPT !.pc = "awaitView",
                                            !.prom = IF l.hit THEN "resolved"
                                                     ELSE "pending",
                                            !.tpl = l.tpl,
                                            !.loaded = @ \cup {viewPath}],
                          loads |-> {l},
                          enqueue |-> l.hit],
                         microtasks)
              ELSE Segment(r, render(rr, r, views), microtasks)
    /\ overlapped' = (overlapped \/ reads # {} \/ microtasks # <<>>
                        \/ \E q \in Reqs : Active(req[q]))
    /\ UNCHANGED <<options, cache, partials, partialsLoaded, placeHolders,
                   failures, phVars, newVars>>

\* renderer resumes after `await this.loadTemplate(viewPath)`
ViewLoaded(r) ==
    /\ microtasks # <<>> /\ Head(microtasks) = r
    /\ req[r].pc = "awaitView"
    /\ IF req[r].prom = "rejected"
       THEN \* the async function rejects; nothing calls cb
            /\ req' = [req EXCEPT ![r].pc = "lost"]
            /\ microtasks' = Tail(microtasks)
            /\ UNCHANGED <<reads, stats>>
       ELSE LET rr == [req[r] EXCEPT
                         !.body = TemplateBody(req[r].tpl),
                         !.path = layoutPath(basePath, options, req[r].layout)]
            IN  Segment(r, render(rr, r, basePath), Tail(microtasks))
    /\ UNCHANGED <<options, cache, partials, partialsLoaded, basePath,
                   placeHolders, failures, overlapped, phVars, newVars>>

\* render resumes after `await this.loadPartials(...)`
PartialsAwaited(r) ==
    /\ microtasks # <<>> /\ Head(microtasks) = r
    /\ req[r].pc = "awaitPartials"
    /\ partialsLoaded' = TRUE
    /\ Segment(r, renderLoad(req[r], r), Tail(microtasks))
    /\ UNCHANGED <<options, cache, partials, basePath, placeHolders, failures,
                   overlapped, phVars, newVars>>

\* render resumes after `await this.loadTemplate(viewPath)` and calls cb
TemplateLoaded(r) ==
    /\ microtasks # <<>> /\ Head(microtasks) = r
    /\ req[r].pc = "awaitTemplate"
    /\ microtasks' = Tail(microtasks)
    /\ IF req[r].prom = "rejected"
       THEN /\ req' = [req EXCEPT ![r].pc = "done",
                                  ![r].result = [kind |-> "err", out |-> <<>>],
                                  ![r].cbCount = @ + 1]
            /\ UNCHANGED placeHolders
       ELSE LET run == Invoke(req[r].tpl, RequestCtx(req[r]), placeHolders)
            IN  /\ req' = [req EXCEPT
                     ![r].pc = "done",
                     ![r].result = IF run.err THEN [kind |-> "err", out |-> <<>>]
                                   ELSE [kind |-> "ok", out |-> run.out],
                     ![r].cbCount = @ + 1,
                     ![r].phBefore = placeHolders,
                     ![r].ready = Registered(basePath),
                     ![r].used = req[r].tpl]
                /\ placeHolders' = run.ph
    /\ UNCHANGED <<options, cache, partials, partialsLoaded, basePath, reads,
                   failures, stats, overlapped, phVars, newVars>>

\* the promise of a finished read is settled; a partial's read is awaited by
\* nobody whose continuation does anything
Settle(rd, ok, t) ==
    IF rd.partial
    THEN UNCHANGED <<req, microtasks>>
    ELSE /\ req' = [req EXCEPT ![rd.by].prom = IF ok THEN "resolved" ELSE "rejected",
                               ![rd.by].tpl = t,
                               ![rd.by].failed = IF ok THEN @ ELSE @ \cup {rd.path}]
         /\ microtasks' = Append(microtasks, rd.by)

\* the fs.readFile callback of loadTemplate, on success
ReadOk(rd) ==
    /\ rd \in reads
    /\ microtasks = <<>>
    /\ Exists(rd.path)
    /\ LET t == [path |-> rd.path, id |-> stats.compiles[rd.path] + 1]
       IN  /\ cache' = cacheAdd(cache, rd.path, t)
           /\ partials' = IF rd.partial
                          THEN MapSet(partials,
                                      partialName(rd.path, options.fileExtension), t)
                          ELSE partials
           /\ stats' = [stats EXCEPT !.compiles[rd.path] = @ + 1]
           /\ Settle(rd, TRUE, t)
    /\ reads' = reads \ {rd}
    /\ UNCHANGED <<options, partialsLoaded, basePath, placeHolders, failures,
                   overlapped, phVars, newVars>>

\* the fs.readFile callback of loadTemplate, on error: the file is missing,
\* or the read failed for a passing reason
ReadErr(rd) ==
    /\ rd \in reads
    /\ microtasks = <<>>
    /\ IF Exists(rd.path) THEN failures < MaxFail ELSE TRUE
    /\ failures' = IF Exists(rd.path) THEN failures + 1 ELSE failures
    /\ Settle(rd, FALSE, NoTpl)
    /\ reads' = reads \ {rd}
    /\ UNCHANGED <<options, cache, partials, partialsLoaded, basePath,
                   placeHolders, stats, overlapped, phVars, newVars>>

\* the options the application constructs the engine with
GivenOptions ==
    {[cacheTemplates |-> TRUE],
     [cacheTemplates |-> FALSE, partialsFolder |-> <<"nopartials">>]}

AllReads == [path : AllPaths, partial : BOOLEAN, by : Reqs]

EngineInit ==
    /\ options \in {Constructor(given) : given \in GivenOptions}
    /\ cache = EmptyMap
    /\ partials = EmptyMap
    /\ partialsLoaded = FALSE
    /\ basePath = <<>>
    /\ placeHolders = EmptyMap
    /\ req = [r \in Reqs |-> IdleReq]
    /\ microtasks = <<>>
    /\ reads = {}
    /\ failures = 0
    /\ stats = [calls |-> [p \in AllPaths |-> 0],
                reads |-> [p \in AllPaths |-> 0],
                compiles |-> [p \in AllPaths |-> 0],
                lateReads |-> [p \in AllPaths |-> 0],
                lateIds |-> [p \in AllPaths |-> {}]]
    /\ overlapped = FALSE

(***************************************************************************)
(* The engine that takes its views folder as the viewPath option and       *)
(* precompiles the layouts and partials folders in its constructor.        *)
(***************************************************************************)
\* its options; null is the default of viewPath
defaultOptionsViewPath ==
    [defaultLayout |-> Named(MainFile),
     partialsFolder |-> Named(<<"partials">>),
     layoutsFolder |-> Named(<<"layouts">>),
     viewPath |-> Null]

\* merge(defaultOptions, options): undefined properties keep the default
merge(defaults, given) ==
    [k \in DOMAIN defaults |->
        IF given[k] = Undefined THEN defaults[k] ELSE given[k]]

\* is.value: neither undefined nor null
isValue(v) == v.kind \notin {"undefined", "null"}

ViewPathMessage == "viewPath option must be defined"
NoEntMessage == "ENOENT: no such file or directory"

RECURSIVE precompile(_, _, _)
\* precompile(basePath, ...folders), folder after folder: acc is what the
\* folders before gave.  readdirSync throws for a missing folder.
precompile(base, folders, acc) ==
    IF folders = <<>> \/ acc.threw THEN acc
    ELSE LET fullPath == pathJoin(base, Head(folders))
             files == {f \in ReadDir(fullPath) : endsWith(f, "hbs")}
             dirs == Append(acc.dirsRead, fullPath)
         IN  IF ~DirExists(fullPath)
             THEN [acc EXCEPT !.threw = TRUE, !.dirsRead = dirs]
             ELSE precompile(base, Tail(folders),
                    [acc EXCEPT
                       !.dirsRead = dirs,
                       !.found = [p \in DOMAIN acc.found
                                      \cup {pathJoin(fullPath, f) : f \in files} |->
                                    IF p \in DOMAIN acc.found THEN acc.found[p]
                                    ELSE [path |-> p, id |-> 1]]])

NotConstructed ==
    [phase |-> "none", given |-> <<>>, message |-> "", dirsRead |-> <<>>,
     cache |-> EmptyMap]

Thrown(given, message, dirs) ==
    [phase |-> "threw", given |-> given, message |-> message,
     dirsRead |-> dirs, cache |-> EmptyMap]

\* a constructor that precompiles without looking at viewPath first
ConstructorUnvalidated(given) ==
    LET opts == merge(defaultOptionsViewPath, given)
        got == precompile(opts.viewPath.name,
                          <<opts.layoutsFolder.name, opts.partialsFolder.name>>,
                          [threw |-> FALSE, dirsRead |-> <<>>, found |-> EmptyMap])
    IN  IF got.threw THEN Thrown(given, NoEntMessage, got.dirsRead)
        ELSE [phase |-> "built", given |-> given, message |-> "",
              dirsRead |-> got.dirsRead, cache |-> got.found]

\* new ExpressHandlebars(options): the instance, or what was thrown
ConstructorViewPath(given) ==
    LET opts == merge(defaultOptionsViewPath, given)
    IN  IF ~isValue(opts.viewPath)
        THEN Thrown(given, ViewPathMessage, <<>>)
        ELSE LET got == precompile(opts.viewPath.name,
                            <<opts.layoutsFolder.name, opts.partialsFolder.name>>,
                            [threw |-> FALSE, dirsRead |-> <<>>, found |-> EmptyMap])
             IN  IF got.threw THEN Thrown(given, NoEntMessage, got.dirsRead)
                 ELSE [phase |-> "built", given |-> given, message |-> "",
                       dirsRead |-> got.dirsRead, cache |-> got.found]

\* the options an application may pass
GivenViewPath ==
    [defaultLayout : {Undefined, Named(MainFile), Named(OtherFile)},
     partialsFolder : {Undefined, Named(<<"partials">>), Named(<<"nopartials">>)},
     layoutsFolder : {Undefined, Named(<<"layouts">>), Named(<<"nolayouts">>)},
     viewPath : {Undefined, Null, Named(<<"v1">>), Named(<<"v0">>)}]

New(given) ==
    /\ ctor.phase = "args"
    /\ ctor.given = given
    /\ ctor' = ConstructorViewPath(given)
    /\ UNCHANGED <<engineVars, phVars, util, iter, hbsVars>>

(***************************************************************************)
(* Helper registration, partial names and the each helper.                 *)
(***************************************************************************)
MaxElems == 2

HelperNames == {"upper", "lower"}
HelperFns == {"f1", "f2"}

\* the helpers the constructor registers
BuiltInHelpers ==
    [n \in {"block", "contentFor"} |->
        IF n = "block" THEN "blockHelper" ELSE "contentForHelper"]

\* the identifier `name` is no parameter and no local of registerHelper: it
\* is looked up in the global scope, where it is not defined or is a string
GlobalNames == {Undefined, Named("")}

\* the maps of helpers an application may pass
HelperMaps == UNION {[ks -> HelperFns] : ks \in SUBSET HelperNames}

\* this.hbs.registerHelper(key, map[key]) for each key of the map
registerHelperMap(helpers, map) ==
    [n \in DOMAIN helpers \cup DOMAIN map |->
        IF n \in DOMAIN map THEN map[n] ELSE helpers[n]]

\* registerHelper(mapOrName, fn) when mapOrName is text: the outcome
registerHelperText(helpers, global, mapOrName, fn) ==
    IF global.kind = "undefined"
    THEN [threw |-> TRUE, helpers |-> helpers]
    ELSE [threw |-> FALSE, helpers |-> MapSet(helpers, global.name, fn)]

\* the files below the partials folder, by their path relative to it
RelPaths ==
    {CardFile,
     <<"a", Sep>> \o CardFile,
     <<"b", Sep>> \o CardFile,
     <<"a", Sep, "b", Sep>> \o CardFile}

PartialsDir == <<"v1", Sep, "partials">>

\* the elements a collection may hold
Elems == {"a", "b"}
ElemSeqs == UNION {[1..n -> Elems] : n \in 0..MaxElems}
Kinds == {"array", "object", "map"}
Collections ==
    {[kind |-> k, values |-> vs] : k \in Kinds, vs \in ElemSeqs}
    \cup {[kind |-> "undefined", values |-> <<>>]}

\* the i-th key of a collection: the index of an array, the i-th own key of
\* an object or of a Map
KeyOf(kind, i) ==
    IF kind = "array" THEN [type |-> "number", at |-> i - 1]
    ELSE [type |-> "string", at |-> i]

\* options.data: absent, or the frame of the enclosing block
NoData ==
    [present |-> FALSE, key |-> [type |-> "none", at |-> 0], index |-> 0,
     first |-> FALSE, last |-> FALSE]
OuterData ==
    [present |-> TRUE, key |-> [type |-> "number", at |-> 1], index |-> 1,
     first |-> FALSE, last |-> TRUE]
DataFrames == {NoData, OuterData}

\* options.fn(value, {data}): the block <li>{{this}}</li>
Fn(value) == <<"li", value>>

\* options.inverse(this): the {{else}} block, or the empty string without one
Inverse(hasElse) == IF hasElse THEN <<"else">> ELSE <<>>

EachStart(data) == [out |-> <<>>, calls |-> <<>>, data |-> data, threw |-> FALSE]

\* iterate(key, value, index, size) writing into the data object it was given
iterate(acc, key, value, index, size) ==
    LET d == IF acc.data.present
             THEN [present |-> TRUE, key |-> key, index |-> index,
                   first |-> index = 0, last |-> index + 1 = size]
             ELSE acc.data
    IN  [out |-> acc.out \o Fn(value), calls |-> Append(acc.calls, d),
         data |-> d, threw |-> FALSE]

RECURSIVE forEach(_, _, _, _)
\* iterable.forEach / for (const key in iterable) of each, calling iterate
forEach(iterable, i, size, acc) ==
    IF i > Len(iterable.values) THEN acc
    ELSE forEach(iterable, i + 1, size,
                 iterate(acc, KeyOf(iterable.kind, i), iterable.values[i],
                         i - 1, size))

\* each(iterable, options) with iterate(key, value, index, size); data is
\* options.data itself, so the result carries what the caller's frame became
each(iterable, data) ==
    IF iterable.kind = "undefined" THEN EachStart(data)
    ELSE forEach(iterable, 1, Len(iterable.values), EachStart(data))

\* iterate(key, value, index, last = false) of the variant without a size
iterateLast(acc, key, value, index, isLast) ==
    LET d == IF acc.data.present
             THEN [present |-> TRUE, key |-> key, index |-> index,
                   first |-> index = 0, last |-> isLast]
             ELSE acc.data
    IN  [out |-> acc.out \o Fn(value), calls |-> Append(acc.calls, d),
         data |-> d, threw |-> FALSE]

RECURSIVE forEachLast(_, _, _)
\* iterable.forEach / for (const key in iterable) calling iterate(key, value,
\* i) with three arguments, so that last takes its default
forEachLast(iterable, i, acc) ==
    IF i > Len(iterable.values) THEN acc
    ELSE forEachLast(iterable, i + 1,
                     iterateLast(acc, KeyOf(iterable.kind, i),
                                 iterable.values[i], i - 1, FALSE))

\* each(iterable, options) with iterate(key, value, index, last)
eachLast(iterable, data) ==
    IF iterable.kind = "undefined" THEN EachStart(data)
    ELSE forEachLast(iterable, 1, EachStart(data))

\* execIteration(field, index, last) writing into the frame made for the call
execIteration(acc, frame, key, value, index, isLast) ==
    LET d == IF frame.present
             THEN [present |-> TRUE, key |-> key, index |-> index,
                   first |-> index = 0, last |-> isLast]
             ELSE frame
    IN  [out |-> acc.out \o Fn(value), calls |-> Append(acc.calls, d),
         data |-> acc.data, threw |-> FALSE]

RECURSIVE arrayLoop(_, _, _, _)
\* for (const j = context.length; i < j; i++) execIteration(i, i, i === j - 1)
arrayLoop(context, frame, i, acc) ==
    IF i >= Len(context.values) THEN acc
    ELSE arrayLoop(context, frame, i + 1,
                   execIteration(acc, frame, KeyOf("array", i + 1),
                                 context.values[i + 1], i,
                                 i = Len(context.values) - 1))

\* the own enumerable properties for...in finds: those of a plain object; a
\* Map keeps its entries in internal slots and has none
OwnKeys(context) ==
    IF context.kind = "object" THEN [i \in 1..Len(context.values) |-> i]
    ELSE <<>>

RECURSIVE forIn(_, _, _, _, _, _)
\* for (const key in context), one step out of sync; prior = 0 is undefined
forIn(context, frame, keys, prior, i, acc) ==
    IF keys = <<>>
    THEN IF prior # 0
         THEN [i |-> i,
               acc |-> execIteration(acc, frame, KeyOf("object", prior),
                                     context.values[prior], i - 1, TRUE)]
         ELSE [i |-> i, acc |-> acc]
    ELSE forIn(context, frame, Tail(keys), Head(keys), i + 1,
               IF prior # 0
               THEN execIteration(acc, frame, KeyOf("object", prior),
                                  context.values[prior], i - 1, FALSE)
               ELSE acc)

\* each(context, options) of lib/helpers.ts; hasFrame: the identifier
\* createFrame, which the file does not import, resolves to Handlebars'
eachHelpers(context, data, hasElse, hasFrame) ==
    IF data.present /\ ~hasFrame
    THEN [EachStart(data) EXCEPT !.threw = TRUE]
    ELSE LET frame == data
             ran == IF context.kind = "undefined"
                    THEN [i |-> 0, acc |-> EachStart(data)]
                    ELSE IF context.kind = "array"
                    THEN [i |-> Len(context.values),
                          acc |-> arrayLoop(context, frame, 0, EachStart(data))]
                    ELSE forIn(context, frame, OwnKeys(context), 0, 0,
                               EachStart(data))
         IN  IF ran.i = 0
             THEN [ran.acc EXCEPT !.out = Inverse(hasElse)]
             ELSE ran.acc

UtilIdle ==
    [helpers |-> BuiltInHelpers, global |-> Undefined, names |-> EmptyMap,
     last |-> [op |-> "none"]]

IterIdle == [op |-> "none"]

\* registerHelper(name, fn)
RegisterHelperText(n, fn) ==
    LET got == registerHelperText(util.helpers, util.global, n, fn)
    IN  /\ util' = [util EXCEPT
                       !.helpers = got.helpers,
                       !.last = [op |-> "registerHelper", form |-> "text",
                                 name |-> n, fn |-> fn, map |-> EmptyMap,
                                 threw |-> got.threw,
                                 before |-> util.helpers]]
        /\ UNCHANGED <<engineVars, phVars, ctor, iter, hbsVars>>

\* registerHelper(map)
RegisterHelperMap(map) ==
    /\ util' = [util EXCEPT
                   !.helpers = registerHelperMap(util.helpers, map),
                   !.last = [op |-> "registerHelper", form |-> "map",
                             name |-> "", fn |-> "", map |-> map,
                             threw |-> FALSE, before |-> util.helpers]]
    /\ UNCHANGED <<engineVars, phVars, ctor, iter, hbsVars>>

\* the name given to the partial file at rel below the partials folder
PartialName(rel) ==
    LET n == partialName(pathJoin(PartialsDir, rel), options.fileExtension)
    IN  /\ util' = [util EXCEPT
                       !.names = MapSet(util.names, rel, n),
                       !.last = [op |-> "partialName", path |-> rel,
                                 name |-> n]]
        /\ UNCHANGED <<engineVars, phVars, ctor, iter, hbsVars>>

\* {{#each iterable}} evaluated by each with iterate(key, value, index, size)
Each(iterable, data) ==
    /\ iter' = [op |-> "each", variant |-> "size", iterable |-> iterable,
                given |-> data, hasElse |-> FALSE,
                got |-> each(iterable, data)]
    /\ UNCHANGED <<engineVars, phVars, ctor, util, hbsVars>>

\* {{#each iterable}} evaluated by each with iterate(key, value, index, last)
EachLast(iterable, data) ==
    /\ iter' = [op |-> "each", variant |-> "last", iterable |-> iterable,
                given |-> data, hasElse |-> FALSE,
                got |-> eachLast(iterable, data)]
    /\ UNCHANGED <<engineVars, phVars, ctor, util, hbsVars>>

\* {{#each context}} evaluated by the each of lib/helpers.ts
EachHelpers(context, data, hasElse, hasFrame) ==
    /\ iter' = [op |-> "each", variant |-> "helpers", iterable |-> context,
                given |-> data, hasElse |-> hasElse,
                got |-> eachHelpers(context, data, hasElse, hasFrame)]
    /\ UNCHANGED <<engineVars, phVars, ctor, util, hbsVars>>

(***************************************************************************)
(* The port of express-hbs: layouts declared by {{!< layout}}, resolved    *)
(* into a stack by cacheLayout and rendered bottom-up by ___express.       *)
(* No asynchronous helper is registered, so async.done calls back at once. *)
(***************************************************************************)
MaxChain == 3

ExtName == ".hbs"
ViewsDir == <<"views">>
LayoutBases == <<"l1", "l2", "l3", "l4">>

HbsFile(base) == ViewsDir \o <<Sep, base, ExtName>>
PageFile == HbsFile("page")
PostFile == HbsFile("post")
LayoutFile(i) == HbsFile(LayoutBases[i])
LayoutFiles == {LayoutFile(i) : i \in 1..MaxChain}
HbsViews == {PageFile, PostFile}

\* the {{!< layout}} comment in the source of a file: post.hbs declares l1,
\* every layout but the last declares the next one
Directive(file) ==
    IF file = PostFile THEN Named(<<LayoutBases[1]>>)
    ELSE IF \E i \in 1..(MaxChain - 1) : file = LayoutFile(i)
    THEN Named(<<LayoutBases[(CHOOSE i \in 1..(MaxChain - 1) :
                                  file = LayoutFile(i)) + 1]>>)
    ELSE Undefined

extname(p) == IF Len(p) > 0 /\ p[Len(p)] = ExtName THEN ExtName ELSE ""
dirname(p) == SubSeq(p, 1, LastSep(p, Len(p)) - 1)
relative(from, to) == SubSeq(to, Len(from) + 2, Len(to))

\* layoutFile += this.options.extName when it has no extension
withExtName(layoutFile) ==
    IF extname(layoutFile) = "" THEN Append(layoutFile, ExtName) ELSE layoutFile

\* declaredLayoutFile(str, filename), str being the source of filename
declaredLayoutFile(filename) ==
    IF Directive(filename).kind = "name"
    THEN Named(pathJoin(dirname(filename), Directive(filename).name))
    ELSE Undefined

\* layoutPath(filename, layout) without a layoutsDir
hbsLayoutPath(viewsDir, layout) == pathJoin(viewsDir, layout)

\* compile(source, filename): the template and its __filename
compile(file, viewsDir) == [file |-> file, filename |-> relative(viewsDir, file)]

NoStack == [has |-> FALSE, list |-> <<>>]
Stack(list) == [has |-> TRUE, list |-> list]

\* a stack that takes the layout in at the bottom
returnLayoutsUnshift(layouts, file, viewsDir) ==
    <<compile(file, viewsDir)>> \o layouts

\* _returnLayouts(layouts): layouts.slice(0) with the current layout pushed
returnLayouts(layouts, file, viewsDir) ==
    Append(layouts, compile(file, viewsDir))

RECURSIVE unwind(_, _, _, _)
\* the callbacks of the nested cacheLayout calls, innermost first
unwind(h, frames, layouts, useCache) ==
    IF frames = <<>> THEN [done |-> TRUE, h |-> h, stack |-> layouts,
                           frames |-> <<>>]
    ELSE LET file == frames[Len(frames)]
             ls == returnLayouts(layouts, file, h.viewsDir)
         IN  unwind(IF useCache THEN [h EXCEPT !.cache = MapSet(@, file, ls)]
                    ELSE h,
                    SubSeq(frames, 1, Len(frames) - 1), ls, useCache)

\* cacheLayout(layoutFile, useCache, cb) called below the frames: answered
\* from the cache, or left waiting for fs.readFile
cacheLayout(h, frames, layoutFile, useCache) ==
    IF MapHas(h.cache, withExtName(layoutFile))
    THEN unwind(h, frames, h.cache[withExtName(layoutFile)], useCache)
    ELSE [done |-> FALSE, h |-> h, stack |-> <<>>,
          frames |-> Append(frames, withExtName(layoutFile))]

\* what a template throws: an Error with a message, a string, an object
\* with no message, a falsy value that has properties (0, false, NaN), or
\* null / undefined
ThrownKinds == {"error", "string", "other", "falsy", "nullish"}
NoError == [kind |-> "none", message |-> <<>>, text |-> <<>>, path |-> <<>>]
ThrownValue(kind) ==
    [kind |-> kind,
     message |-> IF kind = "error" THEN <<"boom">> ELSE <<>>,
     text |-> IF kind = "string" THEN <<"boom">> ELSE <<>>,
     path |-> <<>>]

\* the error of fs.readFile
ReadError(path) ==
    [kind |-> "error", message |-> <<"ENOENT">> \o path, text |-> <<>>,
     path |-> path]

\* the TypeError of reading .message of null or undefined
TypeError ==
    [kind |-> "error", message |-> <<"TypeError">>, text |-> <<>>,
     path |-> <<>>]

\* if (err): the value is not null, undefined, 0, false or NaN
truthy(err) == err.kind \notin {"none", "falsy", "nullish"}

Tag(tpl) == <<"[">> \o tpl.filename \o <<"] ">>

\* template(locals): a layout wraps locals.body, a view ignores it
Output(tpl, body) ==
    IF tpl.file \in LayoutFiles
    THEN <<tpl.filename[1], "(">> \o body \o <<")">>
    ELSE <<tpl.filename[1]>>

\* the catch block of renderTemplate
tagError(tpl, err) ==
    IF err.message # <<>>
    THEN [err EXCEPT !.message = Tag(tpl) \o @]
    ELSE IF err.kind = "string"
    THEN [err EXCEPT !.text = Tag(tpl) \o @]
    ELSE err

\* renderTemplate(template, locals, cb): what cb receives as (err, html),
\* the html null of cb(err, null) written <<>>; escaped: the catch block
\* itself threw, reading .message of null or undefined, and cb is not called
renderTemplate(tpl, body, x) ==
    IF x.thrower = tpl.file
    THEN IF x.thrown = "nullish"
         THEN [escaped |-> TRUE, err |-> TypeError, out |-> <<>>]
         ELSE [escaped |-> FALSE, err |-> tagError(tpl, ThrownValue(x.thrown)),
               out |-> <<>>]
    ELSE [escaped |-> FALSE, err |-> NoError, out |-> Output(tpl, body)]

\* cb(err) / cb(null, html) of the request, as its caller tells them apart
callback(x, err, html) ==
    [x EXCEPT !.pc = "done",
              !.cbCount = @ + 1,
              !.result = IF truthy(err)
                         THEN [kind |-> "err", out |-> <<>>, err |-> err]
                         ELSE [kind |-> "ok", out |-> html, err |-> NoError]]

\* an exception leaves ___express or the callback of fs.readFile; nothing
\* catches it and cb is not called
uncaught(x, err) ==
    [x EXCEPT !.pc = "done",
              !.result = [kind |-> "threw", out |-> <<>>, err |-> err]]

RECURSIVE stackRenderer(_, _, _, _, _)
\* _stackRenderer(err, htmlStr) with i the position of the next layout
stackRenderer(x, list, i, err, html) ==
    IF truthy(err) THEN callback(x, err, <<>>)
    ELSE IF i >= 1
    THEN LET got == renderTemplate(list[i], html, x)
             x2 == [x EXCEPT !.rendered =
                       Append(@, [file |-> list[i].file, body |-> html,
                                  out |-> got.out])]
         IN  IF got.escaped THEN uncaught(x2, got.err)
             ELSE stackRenderer(x2, list, i - 1, got.err, got.out)
    ELSE callback(x, NoError, html)

\* render(template, locals, layoutTemplates, cb)
hbsRender(x, template, stack) ==
    LET list == IF stack.has THEN stack.list ELSE <<>>
        got == renderTemplate(template, <<>>, x)
        x2 == [x EXCEPT !.rendered =
                  Append(@, [file |-> template.file, body |-> <<>>,
                             out |-> got.out])]
    IN  IF got.escaped THEN uncaught(x2, got.err)
        ELSE stackRenderer(x2, list, Len(list), got.err, got.out)

\* renderIt(layoutTemplates)
renderIt(st, stack) ==
    [st EXCEPT !.x = hbsRender([st.x EXCEPT !.stack = stack],
                               st.x.template, stack)]

\* a cacheLayout call made by the request itself has answered
yielded(st, got) ==
    [h |-> got.h,
     x |-> [st.x EXCEPT !.frames = <<>>,
                        !.yields = Append(@, [file |-> got.asked,
                                              stack |-> got.stack])]]

\* the request waits for the read of a layout
waiting(st, got, pc) ==
    [h |-> got.h, x |-> [st.x EXCEPT !.pc = pc, !.frames = got.frames]]

\* cacheLayout called by the request for the file asked
ask(st, asked) ==
    [asked |-> withExtName(asked)]
        @@ cacheLayout(st.h, <<>>, asked, st.x.cache)

\* the callback of parseLayout in compileFile: which layout to use
decide(st, layoutTemplates) ==
    IF st.x.layout.kind = "null" THEN renderIt(st, NoStack)
    ELSE IF layoutTemplates.has THEN renderIt(st, layoutTemplates)
    ELSE IF st.x.layout.kind = "name"
    THEN LET got == ask(st, hbsLayoutPath(st.h.viewsDir, st.x.layout.name))
         IN  IF got.done THEN renderIt(yielded(st, got), Stack(got.stack))
             ELSE waiting(st, got, "layout")
    ELSE IF st.h.defaultLayoutTemplates.has
    THEN renderIt(st, st.h.defaultLayoutTemplates)
    ELSE renderIt(st, NoStack)

\* parseLayout(source, filename, cb) once the source of the view is known
parseLayout(st) ==
    IF declaredLayoutFile(st.x.filename).kind = "name"
    THEN LET got == ask(st, declaredLayoutFile(st.x.filename).name)
         IN  IF got.done THEN decide(yielded(st, got), Stack(got.stack))
             ELSE waiting(st, got, "parse")
    ELSE decide(st, NoStack)

\* compileFile(locals, cb) up to getSourceTemplate
compileFile(st) ==
    IF st.x.cache /\ MapHas(st.h.cache, st.x.filename)
    THEN parseLayout([st EXCEPT !.x.template =
                         st.h.cache[st.x.filename].template])
    ELSE [st EXCEPT !.x.pc = "source"]

\* the callback loadDefaultLayout gives to cacheLayout
afterDefault(st, stack) ==
    compileFile([st EXCEPT !.h.defaultLayoutTemplates = Stack(stack)])

\* loadDefaultLayout(options.cache, cb) and what follows it
loadDefaultLayout(st) ==
    IF st.h.defaultLayout.kind # "name" THEN compileFile(st)
    ELSE IF st.x.cache /\ st.h.defaultLayoutTemplates.has THEN compileFile(st)
    ELSE LET got == ask(st, st.h.defaultLayout.name)
         IN  IF got.done THEN afterDefault(yielded(st, got), got.stack)
             ELSE waiting(st, got, "default")

HbsIdle ==
    [defaultLayout |-> Undefined, cache |-> EmptyMap,
     defaultLayoutTemplates |-> NoStack, viewsDir |-> <<>>]

NoTemplate == [file |-> <<>>, filename |-> <<>>]

XpIdle ==
    [pc |-> "idle", filename |-> <<>>, cache |-> FALSE, layout |-> Undefined,
     thrower |-> <<>>, thrown |-> "error", frames |-> <<>>,
     template |-> NoTemplate, stack |-> NoStack, yields |-> <<>>,
     rendered |-> <<>>, cbCount |-> 0,
     result |-> [kind |-> "none", out |-> <<>>, err |-> NoError]]

\* the requests of the application
HbsLayouts == {Undefined, Null, Named(<<LayoutBases[2]>>)}
\* no template throws, or one does and throws a value of some kind
HbsThrows ==
    {[thrower |-> <<>>, thrown |-> "error"]}
    \cup {[thrower |-> f, thrown |-> k] :
             f \in {PostFile, LayoutFile(2)}, k \in ThrownKinds}
DefaultLayouts == {Undefined, Named(pathJoin(ViewsDir, <<LayoutBases[MaxChain]>>))}

\* ___express(filename, options, cb)
Express(filename, useCache, layout, throw) ==
    /\ xp.pc \in {"idle", "done"}
    /\ LET st == loadDefaultLayout(
                    [h |-> [hbs EXCEPT !.viewsDir = ViewsDir],
                     x |-> [XpIdle EXCEPT !.pc = "start",
                                          !.filename = filename,
                                          !.cache = useCache,
                                          !.layout = layout,
                                          !.thrower = throw.thrower,
                                          !.thrown = throw.thrown]])
       IN  hbs' = st.h /\ xp' = st.x
    /\ UNCHANGED <<engineVars, phVars, ctor, util, iter>>

\* the fs.readFile of getSourceTemplate calls back with the source
SourceReadOk ==
    /\ xp.pc = "source"
    /\ LET tpl == compile(xp.filename, hbs.viewsDir)
           h == IF xp.cache
                THEN [hbs EXCEPT !.cache =
                         MapSet(@, xp.filename,
                                [source |-> xp.filename, template |-> tpl])]
                ELSE hbs
           st == parseLayout([h |-> h, x |-> [xp EXCEPT !.template = tpl]])
       IN  hbs' = st.h /\ xp' = st.x
    /\ UNCHANGED <<engineVars, phVars, ctor, util, iter>>

\* the fs.readFile of getSourceTemplate calls back with an error
SourceReadErr ==
    /\ xp.pc = "source"
    /\ xp' = callback(xp, ReadError(xp.filename), <<>>)
    /\ UNCHANGED <<engineVars, phVars, ctor, util, iter, hbs>>

\* the fs.readFile of the innermost cacheLayout calls back with the source
LayoutReadOk ==
    /\ xp.pc \in {"default", "parse", "layout"}
    /\ LET top == xp.frames[Len(xp.frames)]
           parent == declaredLayoutFile(top)
           got == [asked |-> xp.frames[1]]
                      @@ IF parent.kind = "name"
                         THEN cacheLayout(hbs, xp.frames, parent.name, xp.cache)
                         ELSE unwind(hbs, xp.frames, <<>>, xp.cache)
           st == [h |-> hbs, x |-> xp]
           nx == IF ~got.done THEN waiting(st, got, xp.pc)
                 ELSE IF xp.pc = "default"
                 THEN afterDefault(yielded(st, got), got.stack)
                 ELSE IF xp.pc = "parse"
                 THEN decide(yielded(st, got), Stack(got.stack))
                 ELSE renderIt(yielded(st, got), Stack(got.stack))
       IN  hbs' = nx.h /\ xp' = nx.x
    /\ UNCHANGED <<engineVars, phVars, ctor, util, iter>>

\* the fs.readFile of the innermost cacheLayout calls back with an error
LayoutReadErr ==
    /\ xp.pc \in {"default", "parse", "layout"}
    /\ xp' = callback([xp EXCEPT !.frames = <<>>],
                      ReadError(xp.frames[Len(xp.frames)]), <<>>)
    /\ UNCHANGED <<engineVars, phVars, ctor, util, iter, hbs>>

(***************************************************************************)
(* lib/placeholder-helper.ts: the module-level registry and its helpers.   *)
(***************************************************************************)
Names == {"x", "y"}
Strings == {<<>>, <<"a">>, <<"b">>}
Ctxs == {"c1", "c2"}

\* what template(context) does: return a string or throw
Returns(s) == [threw |-> FALSE, s |-> s]
Throws == [threw |-> TRUE, s |-> <<>>]
Outcomes == {Returns(s) : s \in Strings} \cup {Throws}

\* the default block of a {{#block}}, rendered with a context
DefaultFn(ctx) == <<"d", ctx>>

\* a read that creates an empty list for a name it does not find
getContentCreatesEntry(m, key) ==
    IF MapHas(m, key)
    THEN [content |-> join(m[key], NL), map |-> MapDelete(m, key)]
    ELSE [content |-> <<>>, map |-> MapSet(m, key, <<>>)]

\* a read that leaves the list in the map
getContentNoDelete(m, key) ==
    IF MapHas(m, key)
    THEN [content |-> join(m[key], NL), map |-> m]
    ELSE [content |-> <<>>, map |-> m]

getContent(m, key) ==
    IF MapHas(m, key)
    THEN [content |-> join(m[key], NL), map |-> MapDelete(m, key)]
    ELSE [content |-> <<>>, map |-> m]

\* a contribution that replaces the list instead of appending to it
addContentReplace(m, key, res) ==
    IF res.threw THEN (IF MapHas(m, key) THEN m ELSE MapSet(m, key, <<>>))
    ELSE MapSet(m, key, <<res.s>>)

\* res is the outcome of template(context)
addContent(m, key, res) ==
    LET m1 == IF MapHas(m, key) THEN m ELSE MapSet(m, key, <<>>)
    IN  IF res.threw THEN m1 ELSE MapSet(m1, key, Append(m1[key], res.s))

\* a block helper that keeps the default it rendered in the map
placeholderStoresDefault(m, this, name, hasFn) ==
    LET got == IF MapHas(m, name)
               THEN [content |-> join(m[name], NL), map |-> MapDelete(m, name)]
               ELSE [content |-> <<>>, map |-> m]
    IN  IF isEmpty(got.content) /\ hasFn
        THEN [content |-> DefaultFn(this),
              map |-> MapSet(got.map, name, <<DefaultFn(this)>>)]
        ELSE got

\* this is the render context the helper is called on
placeholder(m, this, name, hasFn) ==
    LET got == getContent(m, name)
    IN  IF isEmpty(got.content) /\ hasFn
        THEN [content |-> DefaultFn(this), map |-> got.map]
        ELSE got

placeholderContent(m, this, name, res) == addContent(m, name, res)

PendingOf(k) == IF MapHas(pending.lists, k) THEN pending.lists[k] ELSE <<>>

Call(op, k, ret, hasFn, ctx, threw) ==
    [op |-> op, key |-> k, ret |-> ret, hasFn |-> hasFn, ctx |-> ctx,
     threw |-> threw,
     before |-> PendingOf(k),              \* strings added since the last read
     hadEntry |-> MapHas(contentMap, k),   \* the key was in the map
     wasDrained |-> k \in pending.drained, \* read, and nothing added since
     returned |-> pending.returned,        \* names whose last read had content
     defaulted |-> pending.defaulted,      \* names whose last read gave the default
     ever |-> pending.ever,                \* names addContent was ever called for
     mapBefore |-> contentMap]             \* the map when the call was made

Room(k) == IF MapHas(contentMap, k) THEN Len(contentMap[k]) < MaxList ELSE TRUE

Added(k, res) ==
    [lists |-> IF res.threw THEN pending.lists
               ELSE MapSet(pending.lists, k, Append(PendingOf(k), res.s)),
     drained |-> pending.drained \ {k},
     returned |-> pending.returned \ {k},
     defaulted |-> pending.defaulted \ {k},
     ever |-> pending.ever \cup {k}]

Read(k, ret, hasFn) ==
    LET dflt == hasFn /\ isEmpty(join(PendingOf(k), NL))
    IN  [lists |-> MapDelete(pending.lists, k),
         drained |-> pending.drained \cup {k},
         returned |-> IF ret # <<>> /\ ~dflt THEN pending.returned \cup {k}
                      ELSE pending.returned \ {k},
         defaulted |-> IF dflt THEN pending.defaulted \cup {k}
                       ELSE pending.defaulted \ {k},
         ever |-> pending.ever]

AddContent(k, res) ==
    /\ Room(k)
    /\ contentMap' = addContent(contentMap, k, res)
    /\ last' = Call("addContent", k, <<>>, FALSE, "", res.threw)
    /\ pending' = Added(k, res)
    /\ UNCHANGED <<engineVars, newVars>>

PlaceholderContent(k, c, res) ==
    /\ Room(k)
    /\ contentMap' = placeholderContent(contentMap, c, k, res)
    /\ last' = Call("placeholderContent", k, <<>>, FALSE, c, res.threw)
    /\ pending' = Added(k, res)
    /\ UNCHANGED <<engineVars, newVars>>

GetContent(k) ==
    /\ LET got == getContent(contentMap, k)
       IN  /\ contentMap' = got.map
           /\ last' = Call("getContent", k, got.content, FALSE, "", FALSE)
           /\ pending' = Read(k, got.content, FALSE)
    /\ UNCHANGED <<engineVars, newVars>>

Placeholder(k, c, hasFn) ==
    /\ LET got == placeholder(contentMap, c, k, hasFn)
       IN  /\ contentMap' = got.map
           /\ last' = Call("placeholder", k, got.content, hasFn, c, FALSE)
           /\ pending' = Read(k, got.content, hasFn)
    /\ UNCHANGED <<engineVars, newVars>>

PHIdle ==
    /\ contentMap = EmptyMap
    /\ last = [op |-> "none"]
    /\ pending = [lists |-> EmptyMap, drained |-> {}, returned |-> {},
                  defaulted |-> {}, ever |-> {}]

InitPH ==
    /\ options = Constructor(<<>>)
    /\ cache = EmptyMap
    /\ partials = EmptyMap
    /\ partialsLoaded = FALSE
    /\ basePath = <<>>
    /\ placeHolders = EmptyMap
    /\ req = [r \in Reqs |-> IdleReq]
    /\ microtasks = <<>>
    /\ reads = {}
    /\ failures = 0
    /\ stats = [calls |-> [p \in AllPaths |-> 0],
                reads |-> [p \in AllPaths |-> 0],
                compiles |-> [p \in AllPaths |-> 0],
                lateReads |-> [p \in AllPaths |-> 0],
                lateIds |-> [p \in AllPaths |-> {}]]
    /\ overlapped = FALSE
    /\ PHIdle
    /\ ctor = NotConstructed
    /\ util = UtilIdle
    /\ iter = IterIdle
    /\ hbs = HbsIdle
    /\ xp = XpIdle

NextPH ==
    \/ \E k \in Names, res \in Outcomes : AddContent(k, res)
    \/ \E k \in Names, c \in Ctxs, res \in Outcomes : PlaceholderContent(k, c, res)
    \/ \E k \in Names : GetContent(k)
    \/ \E k \in Names, c \in Ctxs, hasFn \in BOOLEAN : Placeholder(k, c, hasFn)

SpecPH == InitPH /\ [][NextPH]_vars

InitNew ==
    /\ options = Constructor(<<>>)
    /\ cache = EmptyMap
    /\ partials = EmptyMap
    /\ partialsLoaded = FALSE
    /\ basePath = <<>>
    /\ placeHolders = EmptyMap
    /\ req = [r \in Reqs |-> IdleReq]
    /\ microtasks = <<>>
    /\ reads = {}
    /\ failures = 0
    /\ stats = [calls |-> [p \in AllPaths |-> 0],
                reads |-> [p \in AllPaths |-> 0],
                compiles |-> [p \in AllPaths |-> 0],
                lateReads |-> [p \in AllPaths |-> 0],
                lateIds |-> [p \in AllPaths |-> {}]]
    /\ overlapped = FALSE
    /\ PHIdle
    /\ \E given \in GivenViewPath :
          ctor = [NotConstructed EXCEPT !.phase = "args", !.given = given]
    /\ util = UtilIdle
    /\ iter = IterIdle
    /\ hbs = HbsIdle
    /\ xp = XpIdle

NextNew == \E given \in GivenViewPath : New(given)

SpecNew == InitNew /\ [][NextNew]_vars

EngineIdle ==
    /\ options = Constructor(<<>>)
    /\ cache = EmptyMap
    /\ partials = EmptyMap
    /\ partialsLoaded = FALSE
    /\ basePath = <<>>
    /\ placeHolders = EmptyMap
    /\ req = [r \in Reqs |-> IdleReq]
    /\ microtasks = <<>>
    /\ reads = {}
    /\ failures = 0
    /\ stats = [calls |-> [p \in AllPaths |-> 0],
                reads |-> [p \in AllPaths |-> 0],
                compiles |-> [p \in AllPaths |-> 0],
                lateReads |-> [p \in AllPaths |-> 0],
                lateIds |-> [p \in AllPaths |-> {}]]
    /\ overlapped = FALSE

InitUtil ==
    /\ EngineIdle
    /\ PHIdle
    /\ ctor = NotConstructed
    /\ \E g \in GlobalNames : util = [UtilIdle EXCEPT !.global = g]
    /\ iter = IterIdle
    /\ hbs = HbsIdle
    /\ xp = XpIdle

NextUtil ==
    \/ \E n \in HelperNames, fn \in HelperFns : RegisterHelperText(n, fn)
    \/ \E map \in HelperMaps : RegisterHelperMap(map)
    \/ \E rel \in RelPaths : PartialName(rel)

SpecUtil == InitUtil /\ [][NextUtil]_vars

\* every part of the model as it is constructed, with the default options
InitDefault ==
    /\ EngineIdle
    /\ PHIdle
    /\ ctor = NotConstructed
    /\ util = UtilIdle
    /\ iter = IterIdle
    /\ hbs = HbsIdle
    /\ xp = XpIdle

InitEach == InitDefault

NextEach ==
    \/ \E c \in Collections, d \in DataFrames : Each(c, d)
    \/ \E c \in Collections, d \in DataFrames : EachLast(c, d)
    \/ \E c \in Collections, d \in DataFrames, hasElse \in BOOLEAN,
          hasFrame \in BOOLEAN : EachHelpers(c, d, hasElse, hasFrame)

SpecEach == InitEach /\ [][NextEach]_vars

InitHbs ==
    /\ EngineIdle
    /\ PHIdle
    /\ ctor = NotConstructed
    /\ util = UtilIdle
    /\ iter = IterIdle
    /\ \E d \in DefaultLayouts : hbs = [HbsIdle EXCEPT !.defaultLayout = d]
    /\ xp = XpIdle

NextHbs ==
    \/ \E filename \in HbsViews, useCache \in BOOLEAN, layout \in HbsLayouts,
          throw \in HbsThrows :
          Express(filename, useCache, layout, throw)
    \/ SourceReadOk
    \/ SourceReadErr
    \/ LayoutReadOk
    \/ LayoutReadErr

SpecHbs == InitHbs /\ [][NextHbs]_vars

\* two applications, each with its own views folder, share the engine
ViewsInputs == {[view |-> HomeFile, layout |-> l] : l \in {Undefined, Null}}

NextViews ==
    \/ \E r \in Reqs, in \in ViewsInputs, b \in Roots :
          Renderer(r, pathJoin(b, in.view), in.layout, b)
    \/ \E r \in Reqs : ViewLoaded(r)
    \/ \E r \in Reqs : PartialsAwaited(r)
    \/ \E r \in Reqs : TemplateLoaded(r)
    \/ \E rd \in AllReads : ReadOk(rd)
    \/ \E rd \in AllReads : ReadErr(rd)

SpecViews == InitDefault /\ [][NextViews]_vars

Init ==
    /\ EngineInit
    /\ PHIdle
    /\ ctor = NotConstructed
    /\ util = UtilIdle
    /\ iter = IterIdle
    /\ hbs = HbsIdle
    /\ xp = XpIdle

Next ==
    \/ \E r \in Reqs, in \in RenderInputs, b \in Bases :
          Renderer(r, pathJoin(b, in.view), in.layout, b)
    \/ \E r \in Reqs : ViewLoaded(r)
    \/ \E r \in Reqs : PartialsAwaited(r)
    \/ \E r \in Reqs : TemplateLoaded(r)
    \/ \E rd \in AllReads : ReadOk(rd)
    \/ \E rd \in AllReads : ReadErr(rd)

Spec == Init /\ [][Next]_vars

(***************************************************************************)
(* Compiled-template cache.                                                *)
(***************************************************************************)
Done(r) == req[r].pc = "done"
DoneOk(r) == Done(r) /\ req[r].result.kind = "ok"

\* C1: with caching enabled, a loadTemplate(P) made after a load of P has
\* completed starts no file read; and when requests do not overlap (each
\* begins after the earlier ones and the reads they started have finished),
\* P is compiled once and every later load returns that one object.
C1_CachedTemplateReused ==
    options.cacheTemplates =>
        \A p \in AllPaths :
            /\ stats.lateReads[p] = 0
            /\ ~overlapped => /\ stats.compiles[p] <= 1
                              /\ stats.lateIds[p] \subseteq {1}

\* two requests in a row rendered the same view, which was compiled once
C1_Witness ==
    /\ options.cacheTemplates
    /\ ~overlapped
    /\ \A r \in {1, 2} : DoneOk(r) /\ req[r].ctxLayout = Null
    /\ \E p \in AllPaths : /\ stats.calls[p] = 2
                           /\ stats.reads[p] = 1
                           /\ stats.compiles[p] = 1
                           /\ stats.lateIds[p] = {1}

RequestReads(p) == {rd \in reads : rd.path = p /\ ~rd.partial}

\* C2: render requests that miss on the same path together share one file
\* read, one compile and one compiled template.
C2_ConcurrentMissesCoalesced ==
    /\ \A p \in AllPaths : Cardinality(RequestReads(p)) <= 1
    /\ \A r1, r2 \in Reqs :
          (DoneOk(r1) /\ DoneOk(r2) /\ req[r1].used.path = req[r2].used.path
             /\ stats.lateIds[req[r1].used.path] = {})
          => req[r1].used = req[r2].used

\* C3: with cacheTemplates false every loadTemplate call reads the file.
C3_NoCacheAlwaysReads ==
    ~options.cacheTemplates =>
        \A p \in AllPaths : stats.reads[p] = stats.calls[p]

(***************************************************************************)
(* Layout composition.                                                     *)
(***************************************************************************)
BeyondView(r) == req[r].pc \in {"awaitPartials", "awaitTemplate", "done"}

\* the view of a request rendered with the request's context as it arrived
ViewRendered(rr, ph) ==
    Exec(Content(rr.viewPath),
         [who |-> "request", title |-> rr.title, body |-> UndefBody],
         Start(ph))

\* C4: under a layout, context.body is the string the view renders to with
\* the request context, and cb receives the layout rendered with that context.
C4_BodyIsRenderedView ==
    \A r \in Reqs :
        (req[r].layout # Null /\ BeyondView(r)) =>
            /\ req[r].body = StringBody(ViewRendered(req[r], EmptyMap).out)
            /\ DoneOk(r) =>
                  req[r].result.out =
                      Invoke(req[r].used, RequestCtx(req[r]), req[r].phBefore).out

LayoutsDir(b) == b \o <<"/", "layouts", "/">>

\* C5: with context.layout null, cb receives the view rendered with the
\* request context, and the request loads no layout.
C5_NullLayoutRendersViewAlone ==
    \A r \in Reqs :
        (req[r].pc # "idle" /\ req[r].ctxLayout = Null) =>
            /\ req[r].loaded \subseteq {req[r].viewPath}
            /\ Done(r) /\ req[r].result.kind = "ok" =>
                  /\ req[r].used.path = req[r].viewPath
                  /\ req[r].result.out =
                        ViewRendered(req[r], req[r].phBefore).out

C5_Witness ==
    \E r \in Reqs : /\ DoneOk(r)
                    /\ req[r].ctxLayout = Null
                    /\ req[r].result.out = <<"h", req[r].title>>

RECURSIVE Contributions(_, _, _)
\* the strings a source contributes to block name when run with ctx
Contributions(prog, ctx, name) ==
    IF prog = <<>> THEN <<>>
    ELSE LET o == Head(prog)
             rest == Contributions(Tail(prog), ctx, name)
         IN  IF o.op = "contentFor" /\ o.name = name
             THEN <<Exec(o.fn, ctx, Start(EmptyMap)).out>> \o rest
             ELSE rest

IsSuffix(s, t) == Len(s) <= Len(t) /\ SubSeq(t, Len(t) - Len(s) + 1, Len(t)) = s

\* C7: under a layout the view has been rendered, and its contentFor calls
\* applied to the registry, before the layout template starts rendering.
C7_ViewContributesBeforeLayout ==
    \A r \in Reqs :
        (DoneOk(r) /\ req[r].layout # Null) =>
            LET mine == Contributions(Content(req[r].viewPath),
                            [who |-> "request", title |-> req[r].title,
                             body |-> UndefBody], "x")
            IN  mine # <<>> =>
                    /\ MapHas(req[r].phBefore, "x")
                    /\ IsSuffix(mine, req[r].phBefore["x"])

(***************************************************************************)
(* Placeholder registry of lib/placeholder-helper.ts.                      *)
(***************************************************************************)
RECURSIVE ExpectedJoin(_)
\* s1, newline, s2, newline, ..., sn, built from the last item backwards
ExpectedJoin(list) ==
    IF Len(list) = 1 THEN list[1]
    ELSE ExpectedJoin(SubSeq(list, 1, Len(list) - 1)) \o <<"\n">> \o list[Len(list)]

\* C8: a getContent(x) that follows addContent calls which produced s1..sn
\* (n >= 1, no getContent(x) in between) returns s1..sn in the order they
\* were contributed, with a single newline between consecutive items.
C8_DrainJoinsInOrder ==
    (last.op = "getContent" /\ Len(last.before) >= 1) =>
        last.ret = ExpectedJoin(last.before)

\* a read that joined two different contributions
C8_Witness ==
    /\ last.op = "getContent"
    /\ last.before = <<<<"a">>, <<"b">>>>
    /\ last.ret = <<"a", "\n", "b">>

\* C9: after getContent(x) or the block helper for x returns, x is absent
\* from the registry; a further getContent(x) with no addContent(x) since the
\* previous read returns the empty string.
C9_ReadDrains ==
    /\ last.op \in {"getContent", "placeholder"} => ~MapHas(contentMap, last.key)
    /\ (last.op = "getContent" /\ last.wasDrained) => last.ret = <<>>

\* a second getContent of a name whose first read returned content
C9_Witness ==
    /\ last.op = "getContent"
    /\ last.wasDrained
    /\ last.ret = <<>>
    /\ last.key \in last.returned

\* C10: the block helper called with a default block for a name that has no
\* accumulated content returns the default block rendered with the current
\* render context and leaves no entry for the name; a following read of the
\* name without a default block returns the empty string.
C10_DefaultNotStored ==
    /\ (last.op = "placeholder" /\ last.hasFn /\ last.before = <<>>) =>
          /\ last.ret = <<"d", last.ctx>>
          /\ ~MapHas(contentMap, last.key)
    /\ (last.op \in {"placeholder", "getContent"} /\ ~last.hasFn
          /\ last.key \in last.defaulted) => last.ret = <<>>

\* a read without default block right after the default was returned
C10_Witness ==
    /\ last.op = "placeholder"
    /\ ~last.hasFn
    /\ last.key \in last.defaulted
    /\ last.ret = <<>>

\* C11: reading a name nothing was ever contributed to, with getContent or
\* with the block helper without default block, returns the empty string,
\* raises no error and leaves the registry as it was.
C11_UndefinedBlockReadsEmpty ==
    (last.op \in {"getContent", "placeholder"} /\ ~last.hasFn
        /\ last.key \notin last.ever) =>
        /\ last.ret = <<>>
        /\ ~last.threw
        /\ contentMap = last.mapBefore

\* such a read made while another name holds content
C11_Witness ==
    /\ last.op = "getContent"
    /\ last.key \notin last.ever
    /\ last.ret = <<>>
    /\ contentMap # EmptyMap
    /\ contentMap = last.mapBefore

(***************************************************************************)
(* Requests sharing one engine.                                            *)
(***************************************************************************)
\* C12: what a block read returns while a request is rendered is content
\* contributed while that same request was rendered: the output of a request
\* is the one it produces starting from a registry without content of others.
C12_NoCrossRequestContent ==
    \A r \in Reqs :
        DoneOk(r) =>
            req[r].result.out =
                Invoke(req[r].used, RequestCtx(req[r]), EmptyMap).out

(***************************************************************************)
(* Errors.                                                                 *)
(***************************************************************************)
\* nothing of the request is left to run: no continuation, no read
Finished(r) ==
    /\ req[r].pc \in {"done", "lost"}
    /\ \A rd \in reads : rd.by = r => rd.partial

\* C13: a renderer call whose work has all run has called cb exactly once,
\* with an error or with the output, whichever of its file reads failed.
C13_CallbackExactlyOnce ==
    \A r \in Reqs : Finished(r) => req[r].cbCount = 1

\* C14: when the read of a template file fails for a request, its cb gets
\* the error and no output, the path gets no cache entry from the failure,
\* and the request does not read the path again.
C14_ReadFailureReported ==
    \A r \in Reqs : \A p \in req[r].failed :
        /\ Finished(r) => /\ req[r].cbCount = 1
                          /\ req[r].result = [kind |-> "err", out |-> <<>>]
        /\ stats.compiles[p] = 0 => ~MapHas(cache, p)
        /\ \A rd \in reads : (rd.by = r /\ ~rd.partial) => rd.path # p

(***************************************************************************)
(* Partials.                                                               *)
(***************************************************************************)
\* C15: partialsLoaded is true only when every template file of the
\* partials folder is registered as a partial, and no template is invoked for
\* a request before that.
C15_PartialsBeforeRendering ==
    /\ partialsLoaded => Registered(basePath)
    /\ \A r \in Reqs : req[r].used # NoTpl => req[r].ready

\* C16: once loadPartials has run and the reads it started have finished
\* without error, every template file of the partials folder is registered as
\* a partial, also the files that were in the cache before loadPartials ran.
C16_LoadPartialsRegistersAll ==
    (partialsLoaded /\ failures = 0 /\ \A rd \in reads : ~rd.partial)
        => Registered(basePath)

\* C17: when the partials folder is missing the failure is reported: no
\* request is delivered rendered output as if the partials were there.
C17_MissingPartialsFolderReported ==
    \A r \in Reqs :
        (req[r].pc # "idle"
            /\ ~DirExists(pathJoin(req[r].views, options.partialsFolder))) =>
            ~DoneOk(r)

Suffixed(n) == IF n # <<>> /\ n[Len(n)] = "hbs" THEN n ELSE n \o <<".", "hbs">>

LayoutNames == {<<>>, <<"main">>, <<"other">>, MainFile, OtherFile, <<"my", "hbs">>}

\* C19: addExtension applied twice gives what it gives applied once; the
\* default layout carries the extension; and the layout file of a request is
\* looked for under the layout's name with the extension, whether the name
\* came from defaultLayout or from context.layout.
C19_LayoutExtensionAppended ==
    /\ \A n \in LayoutNames :
          addExtension(addExtension(n, options.fileExtension), options.fileExtension)
              = addExtension(n, options.fileExtension)
    /\ options.defaultLayout = Suffixed(defaultOptions.defaultLayout)
    /\ \A r \in Reqs :
          (req[r].layout.kind = "name" /\ BeyondView(r)) =>
              \E b \in Bases :
                  req[r].path = LayoutsDir(b) \o Suffixed(req[r].layout.name)

(***************************************************************************)
(* Frame of the cache.                                                     *)
(***************************************************************************)
\* the entry of path p is not the same before and after the step
EntryChanged(p) ==
    IF MapHas(cache, p)
    THEN IF MapHas(cache', p) THEN cache'[p] # cache[p] ELSE TRUE
    ELSE MapHas(cache', p)

\* C20: a load of P1 adds or changes the cache entry of P1 only: in every
\* step, a path whose entry appears, disappears or changes is the path of a
\* read that this step completed.
C20_LoadTouchesOnlyItsEntry ==
    [][\A p \in AllPaths :
          EntryChanged(p) => \E rd \in reads : rd \notin reads' /\ rd.path = p]_vars

\* a second path was loaded into a cache that held another one, which is
\* still there with the template it had
C20_Witness ==
    \E p1, p2 \in AllPaths :
        /\ p1 # p2
        /\ MapHas(cache, p1) /\ MapHas(cache, p2)
        /\ cache[p1].id = 1 /\ stats.compiles[p1] = 1
        /\ cache[p2].id = 1 /\ stats.compiles[p2] = 1

(***************************************************************************)
(* Helper registration.                                                    *)
(***************************************************************************)
\* what the last registerHelper call was asked to register
AskedHelpers ==
    IF util.last.form = "text"
    THEN MapSet(EmptyMap, util.last.name, util.last.fn)
    ELSE util.last.map

\* C21: after registerHelper(name, fn) the helper under name is fn, and
\* after registerHelper(map) the helper under every key k is map[k]; in both
\* forms the helpers under every other name are what they were before.
C21_RegisterHelperRegisters ==
    util.last.op = "registerHelper" =>
        /\ ~util.last.threw
        /\ \A n \in DOMAIN AskedHelpers :
              MapHas(util.helpers, n) /\ util.helpers[n] = AskedHelpers[n]
        /\ \A n \in (DOMAIN util.last.before \cup DOMAIN util.helpers)
                       \ DOMAIN AskedHelpers :
              /\ MapHas(util.last.before, n)
              /\ MapHas(util.helpers, n)
              /\ util.helpers[n] = util.last.before[n]

(***************************************************************************)
(* Partial names.                                                          *)
(***************************************************************************)
\* the relative path without its extension
ExpectedName(rel) == SubSeq(rel, 1, Len(rel) - 2)

RECURSIVE Concat(_)
\* the block rendered with e1, then e2, ..., then en
Concat(values) ==
    IF values = <<>> THEN <<>> ELSE Fn(Head(values)) \o Concat(Tail(values))

\* C23: for an array, a plain object or a Map holding e1..en (n >= 1), each
\* returns the block rendered with e1, e2, ..., en concatenated in that
\* order, hence the same string for the three kinds of container.
C23_EachConcatenates ==
    (/\ iter.op = "each"
     /\ iter.iterable.kind \in Kinds
     /\ Len(iter.iterable.values) >= 1
     /\ ~iter.got.threw)
        => iter.got.out = Concat(iter.iterable.values)

(***************************************************************************)
(* The stack of layouts.                                                   *)
(***************************************************************************)
RECURSIVE Chain(_)
\* a layout file, the layout it declares, and so on up to the one that
\* declares none
Chain(file) ==
    IF declaredLayoutFile(file).kind = "name"
    THEN <<file>> \o Chain(withExtName(declaredLayoutFile(file).name))
    ELSE <<file>>

Reverse(s) == [i \in 1..Len(s) |-> s[Len(s) + 1 - i]]

FilesOf(list) == [i \in 1..Len(list) |-> list[i].file]

\* the request has called back with the page rendered in a stack of layouts
RenderedInStack ==
    /\ xp.pc = "done"
    /\ xp.result.kind = "ok"
    /\ xp.stack.has
    /\ Len(xp.stack.list) >= 1

\* C24: cacheLayout asked for L1 yields the stack [Ln, ..., L1] of the chain
\* of declared parents; render renders the view, then L1, ..., Ln, each with
\* the previous output as locals.body, and calls back with Ln's output.
C24_LayoutStackBottomUp ==
    /\ \A k \in 1..Len(xp.yields) :
          FilesOf(xp.yields[k].stack) = Reverse(Chain(xp.yields[k].file))
    /\ RenderedInStack =>
          LET l1 == xp.stack.list[Len(xp.stack.list)].file
          IN  /\ FilesOf(xp.stack.list) = Reverse(Chain(l1))
              /\ FilesOf(xp.rendered) = <<xp.filename>> \o Chain(l1)
              /\ \A k \in 2..Len(xp.rendered) :
                    xp.rendered[k].body = xp.rendered[k - 1].out
              /\ xp.result.out = xp.rendered[Len(xp.rendered)].out

\* a view rendered in the whole chain l1, l2, ..., read from disk
C24_Witness ==
    /\ RenderedInStack
    /\ Len(xp.stack.list) = MaxChain
    /\ Len(xp.rendered) = MaxChain + 1
    /\ Len(xp.yields) >= 1
    /\ xp.result.out[1] = LayoutBases[MaxChain]

(***************************************************************************)
(* Errors of a request.                                                    *)
(***************************************************************************)
\* the request has called back with an error
Failed == xp.pc = "done" /\ xp.result.kind = "err"

IsPrefix(p, s) == Len(p) <= Len(s) /\ SubSeq(s, 1, Len(p)) = p

\* C25: the error a failed request calls back with identifies the template
\* that failed: the path of the file whose read failed, or, for a template
\* that threw, its file name in brackets at the start of the message.
C25_ErrorNamesTemplate ==
    Failed =>
        IF xp.result.err.path # <<>>
        THEN xp.result.err.path \in HbsViews \cup LayoutFiles
        ELSE LET tag == <<"[">> \o relative(hbs.viewsDir, xp.thrower) \o <<"] ">>
             IN  \/ IsPrefix(tag, xp.result.err.message)
                 \/ IsPrefix(tag, xp.result.err.text)

(***************************************************************************)
(* No eviction.                                                            *)
(***************************************************************************)
\* C26: a path that is in the template cache is in it after every step of
\* the engine: rendering, loading templates and loading partials add
\* entries and never remove one.
C26_NoEviction ==
    [][\A p \in AllPaths : MapHas(cache, p) => MapHas(cache', p)]_vars

\* two requests were served and the cache holds the view, a layout and the
\* partial, everything that was ever compiled
C26_Witness ==
    /\ DoneOk(1) /\ DoneOk(2)
    /\ Cardinality(DOMAIN cache) >= 3
    /\ \A p \in AllPaths : stats.compiles[p] >= 1 => MapHas(cache, p)

(***************************************************************************)
(* Independence of the placeholder names.                                  *)
(***************************************************************************)
\* C27: a call for the name x leaves the list of every other name as it
\* was; the keys of contentMap are as many as the names that received
\* content since they were last read; and a contribution whose template
\* returns is stored without an error, read later or not.
C27_PlaceholderNamesIndependent ==
    /\ last.op # "none" =>
          \A y \in Names \ {last.key} :
              /\ MapHas(contentMap, y) <=> MapHas(last.mapBefore, y)
              /\ MapHas(contentMap, y) => contentMap[y] = last.mapBefore[y]
    /\ Cardinality(DOMAIN contentMap) = Cardinality(DOMAIN pending.lists)
    /\ (last.op \in {"addContent", "placeholderContent"} /\ ~last.threw) =>
          /\ MapHas(contentMap, last.key)
          /\ Len(contentMap[last.key]) >= 1

(***************************************************************************)
(* Loading the partials once.                                              *)
(***************************************************************************)
\* C28: the partials are loaded once for all requests: no two requests
\* have partial reads of the same file in flight, and, no read having
\* failed, each file of the partials folder is read and compiled at most
\* once.
C28_PartialsLoadedOnce ==
    /\ \A rd1, rd2 \in reads :
          (rd1.partial /\ rd2.partial /\ rd1.path = rd2.path) => rd1.by = rd2.by
    /\ failures = 0 =>
          \A b \in Bases : \A p \in PartialFiles(b) :
              stats.reads[p] <= 1 /\ stats.compiles[p] <= 1

(***************************************************************************)
(* The registry after a render.                                            *)
(***************************************************************************)
\* C29: once a request has called back and no request is under way, the
\* placeholder registry holds no entry: nothing a render contributed is
\* left for a later render.
C29_RegistryEmptyAfterRender ==
    (/\ \E r \in Reqs : Done(r)
     /\ \A r \in Reqs : ~Active(req[r]))
        => placeHolders = EmptyMap

(***************************************************************************)
(* The views folder of a request.                                          *)
(***************************************************************************)
\* C30: a request resolves its layout, and the partials it loads, under its
\* own context.settings.views, whatever other request runs in between.
C30_OwnViewsFolder ==
    /\ \A r \in Reqs :
          (req[r].layout.kind = "name" /\ BeyondView(r)) =>
              req[r].path = LayoutsDir(req[r].views) \o req[r].layout.name
    /\ \A rd \in reads :
          rd.partial => IsPrefix(req[rd.by].views, rd.path)

(***************************************************************************)
(* The frame of each iteration.                                            *)
(***************************************************************************)
\* C31: in every variant of each, for a collection of n >= 1 elements the
\* block is invoked n times, with data.index = 0, 1, ..., n-1 in order,
\* data.first true exactly on the first invocation and data.last true
\* exactly on the n-th.
C31_IterationFrames ==
    (/\ iter.op = "each"
     /\ iter.iterable.kind \in Kinds
     /\ Len(iter.iterable.values) >= 1
     /\ ~iter.got.threw)
        => /\ Len(iter.got.calls) = Len(iter.iterable.values)
           /\ iter.given.present =>
                 \A i \in 1..Len(iter.got.calls) :
                     /\ iter.got.calls[i].index = i - 1
                     /\ iter.got.calls[i].first = (i = 1)
                     /\ iter.got.calls[i].last = (i = Len(iter.iterable.values))


\* C32: each does not modify the data frame of its caller: after it returns,
\* key, index, first and last of the options.data passed in are what they
\* were before the call.
C32_CallerFrameKept ==
    (/\ iter.op = "each"
     /\ iter.given.present
     /\ ~iter.got.threw)
        => /\ iter.got.data.key = iter.given.key
           /\ iter.got.data.index = iter.given.index
           /\ iter.got.data.first = iter.given.first
           /\ iter.got.data.last = iter.given.last


(***************************************************************************)
(* A content template that throws.                                         *)
(***************************************************************************)
\* C33: when the template given to addContent throws, the registry is left
\* as it was before the call; no entry with an empty list is created, so
\* every key of contentMap maps to a non-empty list.
C33_ThrowLeavesRegistry ==
    /\ (last.op \in {"addContent", "placeholderContent"} /\ last.threw) =>
          contentMap = last.mapBefore
    /\ \A k \in DOMAIN contentMap : contentMap[k] # <<>>


(***************************************************************************)
(* Layouts without the cache.                                              *)
(***************************************************************************)
\* C34: whatever earlier requests have cached, cacheLayout(file, false, cb)
\* is not answered from the layout cache (it waits for the file to be read
\* from disk) and stores nothing into the cache.
C34_NoCacheReadsDisk ==
    \A f \in LayoutFiles :
        LET got == cacheLayout(hbs, <<>>, f, FALSE)
        IN  /\ ~got.done
            /\ got.h.cache = hbs.cache


(***************************************************************************)
(* A template that fails in the stack.                                     *)
(***************************************************************************)
\* the request is over and its template xp.thrower threw while render ran
ThrewInRender ==
    /\ xp.pc = "done"
    /\ \E k \in 1..Len(xp.rendered) : xp.rendered[k].file = xp.thrower

\* C35: when rendering the view or a layout of the stack fails, render calls
\* its callback exactly once, with that error, and renders no layout further
\* up the stack afterwards.
C35_FirstFailureSurfacedOnce ==
    /\ xp.cbCount <= 1
    /\ ThrewInRender =>
          /\ xp.cbCount = 1
          /\ xp.result.kind = "err"
          /\ xp.result.err.kind = xp.thrown
          /\ xp.rendered[Len(xp.rendered)].file = xp.thrower

====
